---- MODULE Spec2Model ----
(***************************************************************************)
(* One invocation of the command-line HTTP client, src/src/main.rs.        *)
(* main() is a single sequential pipeline; each action below is one        *)
(* statement group of main(), in program order, selected by pc.            *)
(*                                                                         *)
(* Header maps follow reqwest/http semantics: a HeaderMap is a multimap    *)
(* (name -> sequence of values); RequestBuilder::header APPENDS a value,   *)
(* RequestBuilder::headers REPLACES every value of the names it carries,   *)
(* HeaderMap::remove drops every value of a name.                          *)
(*                                                                         *)
(* The operators that stand for request_items.rs and auth.rs follow the     *)
(* written specification (sections 4.1-4.4).                               *)
(***************************************************************************)
EXTENDS Naturals, Sequences, FiniteSets, TLC

\* Longest request-item list explored.
MaxItems == 2

NoOpt == [none |-> TRUE]
NoBody == [variant |-> "None"]
NoAuth == [scheme |-> "None"]
NoRequest == [built |-> FALSE]
NoPrint == [unset |-> TRUE]
\* read_to_string(..).unwrap() on an Err
Panic == [variant |-> "Panic"]

HeaderNames ==
    {"accept", "accept-encoding", "connection", "host", "content-type", "authorization"}

DefaultNames == {"accept", "accept-encoding", "connection", "host"}

EmptyHeaders == [n \in HeaderNames |-> <<>>]

\* cli::RequestItem values an invocation may carry (already tokenised by
\* structopt's FromStr; kinds as in spec section 3).
HeaderItems ==
    { [kind |-> "HeaderSet",   name |-> "accept",          value |-> "text/plain"],
      [kind |-> "HeaderSet",   name |-> "accept",          value |-> "text/html"],
      [kind |-> "HeaderSet",   name |-> "accept-encoding", value |-> "identity"],
      [kind |-> "HeaderSet",   name |-> "connection",      value |-> "close"],
      [kind |-> "HeaderSet",   name |-> "host",            value |-> "other.test"],
      [kind |-> "HeaderUnset", name |-> "accept",          value |-> ""],
      [kind |-> "HeaderUnset", name |-> "host",            value |-> ""],
      [kind |-> "HeaderUnset", name |-> "content-type",    value |-> ""],
      [kind |-> "HeaderUnset", name |-> "authorization",   value |-> ""] }

FieldItems ==
    { [kind |-> "DataField",   name |-> "name",          value |-> "bob"],
      [kind |-> "JsonField",   name |-> "age",           value |-> "30"],
      [kind |-> "FileField",   name |-> "f",             value |-> "path"] }

ItemUniverse == HeaderItems \cup FieldItems

\* Items of the invocations that are followed through the whole of main().
PipelineItems ==
    FieldItems \cup { [kind |-> "HeaderSet", name |-> "accept", value |-> "text/plain"] }

ListsOver(universe) == UNION { [1..n -> universe] : n \in 0..MaxItems }

\* cli::Print::new(request_headers, request_body, response_headers, response_body)
Print_new(a, b, c, d) ==
    [request_headers |-> a, request_body |-> b, response_headers |-> c, response_body |-> d]

\* opt.print: None or an explicit override.
PrintOverrides == { NoPrint, Print_new(TRUE, FALSE, FALSE, FALSE), Print_new(FALSE, TRUE, TRUE, TRUE) }

\* opt.auth together with opt.auth_type.
AuthArgs ==
    { [cred |-> "", type |-> "basic"],
      [cred |-> "tok123", type |-> "bearer"],
      [cred |-> "alice:secret", type |-> "basic"] }

\* Credentials of the invocations that are followed through the whole of main().
PipelineAuthArgs ==
    { [cred |-> "", type |-> "basic"],
      [cred |-> "alice:secret", type |-> "basic"] }

\* cli::Opt as produced by Opt::from_args().
OptSpace ==
    [ request_items : ListsOver(PipelineItems),
      form          : BOOLEAN,
      multipart     : BOOLEAN,
      ignore_stdin  : BOOLEAN,
      offline       : BOOLEAN,
      download      : BOOLEAN,
      verbose       : BOOLEAN,
      print         : PrintOverrides,
      auth          : PipelineAuthArgs ]

\* Invocations with --offline and the default print policy, over the full item
\* universe; followed up to the built request.
OfflineOptSpace ==
    [ request_items : ListsOver(ItemUniverse),
      form          : BOOLEAN,
      multipart     : BOOLEAN,
      ignore_stdin  : BOOLEAN,
      offline       : {TRUE},
      download      : {FALSE},
      verbose       : {FALSE},
      print         : {NoPrint},
      auth          : AuthArgs ]

\* What is attached to standard input: a terminal, or a pipe with its data
\* (utf8: the bytes are valid UTF-8, which read_to_string requires).
StdinSpace ==
    { [tty |-> TRUE,  data |-> "",      utf8 |-> TRUE],
      [tty |-> FALSE, data |-> "",      utf8 |-> TRUE],
      [tty |-> FALSE, data |-> "raw",   utf8 |-> TRUE],
      [tty |-> FALSE, data |-> "bytes", utf8 |-> FALSE] }

VARIABLES
    pc,                \* position in main()
    opt,               \* parsed command line
    stdin,             \* the process's standard input
    stdout_tty,        \* atty::is(Stream::Stdout)
    auth,              \* Auth::new(..)
    headers,           \* request_items.headers().0
    headers_to_unset,  \* request_items.headers().1
    body,              \* resolved body
    request,           \* built request
    print,             \* print policy
    response,          \* state of the response body stream
    consumers,         \* who has taken the response body stream
    result,            \* "running", "Ok" or the error main() ended with
    log                \* stages executed so far, in order

vars ==
    <<pc, opt, stdin, stdout_tty, auth, headers, headers_to_unset, body, request, print,
      response, consumers, result, log>>

Range(s) == { s[i] : i \in 1..Len(s) }

(***************************************************************************)
(* Header map operations (reqwest / http::HeaderMap).                      *)
(***************************************************************************)

\* RequestBuilder::header(name, value): append a value to the name's entry.
header(h, n, v) == [h EXCEPT ![n] = Append(@, v)]

\* HeaderMap::insert(name, value): the single value of the name.
insert(h, n, v) == [h EXCEPT ![n] = <<v>>]

\* Variant of merge_headers: the user's values are appended after the builder's.
merge_headers_append(h, user) ==
    [n \in HeaderNames |-> h[n] \o user[n]]

\* RequestBuilder::headers(map): every name carried by `map` gets map's values,
\* replacing what the builder held for that name; other names are untouched.
merge_headers(h, user) ==
    [n \in HeaderNames |-> IF user[n] # <<>> THEN user[n] ELSE h[n]]

\* HeaderMap::remove(name): drop every value of the name.
remove(h, n) == [h EXCEPT ![n] = <<>>]

(***************************************************************************)
(* request_items.rs, auth.rs (from the written specification).             *)
(***************************************************************************)

BodyKinds == {"DataField", "JsonField", "FileField"}

IsBodyItem(it) == it.kind \in BodyKinds

\* The DataField / JsonField / FileField items, in input order.
BodyItems(items) == SelectSeq(items, IsBodyItem)

HasKind(items, k) == \E i \in 1..Len(items) : items[i].kind = k

RECURSIVE headers_of(_)
\* RequestItems::headers(): (header mapping, names to remove). A later HeaderSet
\* of a name overrides an earlier one; a HeaderUnset drops a prior HeaderSet of
\* the name and records the name for removal.
headers_of(items) ==
    IF items = <<>> THEN [map |-> EmptyHeaders, unset |-> {}]
    ELSE
        LET prev == headers_of(SubSeq(items, 1, Len(items) - 1))
            it == items[Len(items)]
        IN  CASE it.kind = "HeaderSet" ->
                    [map |-> insert(prev.map, it.name, it.value), unset |-> prev.unset]
              [] it.kind = "HeaderUnset" ->
                    [map |-> remove(prev.map, it.name), unset |-> prev.unset \cup {it.name}]
              [] OTHER -> prev

\* RequestItems::body(form, multipart): Err(TypeError) when a field kind does not
\* fit the body mode, Err(IoError) when an attachment cannot be read, Ok(None)
\* without body items, otherwise Ok(Some(body of the selected variant)).
items_body(items, form, multipart, readable) ==
    LET b == BodyItems(items)
        Some(v) == [err |-> "none", body |-> [variant |-> v, fields |-> b]]
        Err(e) == [err |-> e, body |-> NoBody]
    IN  IF b = <<>> THEN [err |-> "none", body |-> NoBody]
        ELSE IF multipart THEN
            IF HasKind(b, "JsonField") THEN Err("TypeError")
            ELSE IF HasKind(b, "FileField") /\ ~readable THEN Err("IoError")
            ELSE Some("Multipart")
        ELSE IF form THEN
            IF HasKind(b, "JsonField") \/ HasKind(b, "FileField") THEN Err("TypeError")
            ELSE Some("Form")
        ELSE
            IF HasKind(b, "FileField") THEN Err("TypeError")
            ELSE Some("Json")

\* Auth::new(opt.auth, opt.auth_type, &url)
Auth_new(a) ==
    IF a.cred = "" THEN NoAuth
    ELSE IF a.type = "bearer" THEN [scheme |-> "Bearer", credentials |-> a.cred]
    ELSE [scheme |-> "Basic", credentials |-> a.cred]

(***************************************************************************)
(* src/src/main.rs                                                         *)
(***************************************************************************)

\* Variant of body_from_stdin: the --ignore-stdin flag is not consulted.
body_from_stdin_always_reads(ignore_stdin, in) ==
    IF in.tty THEN NoBody
    ELSE IF ~in.utf8 THEN Panic
    ELSE [variant |-> "Raw", text |-> in.data]

\* body_from_stdin(ignore_stdin)
body_from_stdin(ignore_stdin, in) ==
    IF in.tty \/ ignore_stdin THEN NoBody
    ELSE IF ~in.utf8 THEN Panic
    ELSE [variant |-> "Raw", text |-> in.data]

\* Variant of resolve_body: the (Some, Some) arm keeps the items' body instead
\* of returning the conflict error.
resolve_body_no_conflict(fromItems, fromStdin) ==
    IF fromItems.err # "none" THEN [err |-> fromItems.err, body |-> NoBody]
    ELSE IF fromItems.body # NoBody THEN [err |-> "none", body |-> fromItems.body]
    ELSE IF fromStdin # NoBody THEN [err |-> "none", body |-> fromStdin]
    ELSE [err |-> "none", body |-> NoBody]

\* The match on (request_items.body(..).await?, body_from_stdin(..)): the `?`
\* returns the items' error before the stdin side is looked at.
resolve_body(fromItems, fromStdin) ==
    IF fromItems.err # "none" THEN [err |-> fromItems.err, body |-> NoBody]
    ELSE IF fromItems.body # NoBody /\ fromStdin # NoBody
        THEN [err |-> "ConflictError", body |-> NoBody]
    ELSE IF fromItems.body # NoBody THEN [err |-> "none", body |-> fromItems.body]
    ELSE IF fromStdin # NoBody THEN [err |-> "none", body |-> fromStdin]
    ELSE [err |-> "none", body |-> NoBody]

\* client.request(method, url).header(ACCEPT ..).header(ACCEPT_ENCODING ..)
\*   .header(CONNECTION ..).header(HOST ..)
default_headers(host) ==
    header(header(header(header(EmptyHeaders,
        "accept", "*/*"),
        "accept-encoding", "gzip, deflate"),
        "connection", "keep-alive"),
        "host", host)

\* request_builder = match body { .. }
body_headers(h, b) ==
    CASE b.variant = "Form" ->
            insert(h, "content-type", "application/x-www-form-urlencoded")
      [] b.variant = "Multipart" ->
            header(h, "content-type", "multipart/form-data")
      [] b.variant = "Json" ->
            insert(header(h, "accept", "application/json, */*"),
                   "content-type", "application/json")
      [] b.variant = "Raw" ->
            header(header(h, "accept", "application/json, */*"),
                   "content-type", "application/json")
      [] OTHER -> h

\* request_builder = match auth { .. }
auth_headers(h, a) ==
    CASE a.scheme = "Bearer" -> header(h, "authorization", "Bearer")
      [] a.scheme = "Basic" -> header(h, "authorization", "Basic")
      [] OTHER -> h

RECURSIVE unset_headers(_, _)
\* headers_to_unset.iter().for_each(|h| request.headers_mut().remove(h))
unset_headers(h, names) ==
    IF names = {} THEN h
    ELSE LET n == CHOOSE x \in names : TRUE
         IN  unset_headers(remove(h, n), names \ {n})

\* Variant of build_headers: the removal pass runs on the defaults, before the
\* body, auth and user headers are applied.
build_headers_unset_first(host, b, a, user, unset) ==
    merge_headers(
        auth_headers(body_headers(unset_headers(default_headers(host), unset), b), a),
        user)

\* The block that builds `request`: defaults, body, auth, the user's headers,
\* then the removal pass.
build_headers(host, b, a, user, unset) ==
    unset_headers(
        merge_headers(auth_headers(body_headers(default_headers(host), b), a), user),
        unset)

\* Variant of print_policy: the terminal test is made before the verbose test.
print_policy_tty_first(override, verbose, is_tty) ==
    IF override # NoPrint THEN override
    ELSE IF is_tty THEN Print_new(FALSE, FALSE, TRUE, TRUE)
    ELSE IF verbose THEN Print_new(TRUE, TRUE, TRUE, TRUE)
    ELSE Print_new(FALSE, FALSE, FALSE, TRUE)

\* opt.print.unwrap_or(if opt.verbose {..} else if atty::is(Stdout) {..} else {..})
print_policy(override, verbose, is_tty) ==
    IF override # NoPrint THEN override
    ELSE IF verbose THEN Print_new(TRUE, TRUE, TRUE, TRUE)
    ELSE IF is_tty THEN Print_new(FALSE, FALSE, TRUE, TRUE)
    ELSE Print_new(FALSE, FALSE, FALSE, TRUE)


\* Variant of response_consumers: the two branches are independent `if`s.
response_consumers_both(download, response_body) ==
    (IF download THEN {"download"} ELSE {}) \cup (IF response_body THEN {"display"} ELSE {})

\* The branch taken on the response body: download_file(response), else
\* print_response_body(response) when the policy asks for it, else neither.
response_consumers(download, response_body) ==
    IF download THEN {"download"}
    ELSE IF response_body THEN {"display"}
    ELSE {}

\* Variant of sends: the offline flag is not consulted.
sends_always(offline) == TRUE

\* if !opt.offline { client.execute(request) .. }
sends(offline) == ~offline

\* Variant of after_stage: the request is sent before anything is rendered.
after_stage_send_first(p) ==
    CASE p = "args" -> "url"
      [] p = "url" -> "items"
      [] p = "items" -> "body"
      [] p = "body" -> "build"
      [] p = "build" -> "policy"
      [] p = "policy" -> "send"
      [] p = "send" -> "request_headers"
      [] p = "request_headers" -> "request_body"
      [] p = "request_body" -> "response_headers"
      [] p = "response_headers" -> "response_body"
      [] p = "response_body" -> "finish"
      [] OTHER -> "exit"

\* Statement order of main(): the stage that follows stage p when p succeeds.
after_stage(p) ==
    CASE p = "args" -> "url"
      [] p = "url" -> "items"
      [] p = "items" -> "body"
      [] p = "body" -> "build"
      [] p = "build" -> "policy"
      [] p = "policy" -> "request_headers"
      [] p = "request_headers" -> "request_body"
      [] p = "request_body" -> "send"
      [] p = "send" -> "response_headers"
      [] p = "response_headers" -> "response_body"
      [] p = "response_body" -> "finish"
      [] OTHER -> "exit"

\* url.host().unwrap()
Host == "example.com"

Ran(stage) == [stage |-> stage, ok |-> TRUE]
Failed(stage) == [stage |-> stage, ok |-> FALSE]

Init ==
    /\ pc = "args"
    /\ opt = NoOpt
    /\ stdin \in StdinSpace
    /\ stdout_tty \in BOOLEAN
    /\ auth = NoAuth
    /\ headers = EmptyHeaders
    /\ headers_to_unset = {}
    /\ body = NoBody
    /\ request = NoRequest
    /\ print = NoPrint
    /\ response = "none"
    /\ consumers = {}
    /\ result = "running"
    /\ log = <<>>

\* A stage succeeds: record it and move on.
Advance(stage) ==
    /\ pc' = after_stage(stage)
    /\ log' = Append(log, Ran(stage))
    /\ result' = result

\* A stage fails: `?` / unwrap / early return ends main() with the error.
Abort(stage, err) ==
    /\ pc' = "exit"
    /\ log' = Append(log, Failed(stage))
    /\ result' = err

\* Opt::from_args(); Printer::new; RequestItems::new   (structopt exits on a
\* malformed argument)
ParseArgsFrom(space) ==
    /\ pc = "args"
    /\ \/ /\ \E o \in space : opt' = o
          /\ Advance("args")
       \/ /\ opt' = opt
          /\ Abort("args", "ParseError")
    /\ UNCHANGED <<stdin, stdout_tty, auth, headers, headers_to_unset, body, request,
                   print, response, consumers>>

ParseArgs == ParseArgsFrom(OptSpace)

ParseArgsOffline == ParseArgsFrom(OfflineOptSpace)

\* Url::new(opt.url, opt.default_scheme); url.host().unwrap()
ResolveUrl ==
    /\ pc = "url"
    /\ \/ Advance("url")
       \/ Abort("url", "UrlError")
    /\ UNCHANGED <<opt, stdin, stdout_tty, auth, headers, headers_to_unset, body,
                   request, print, response, consumers>>

\* method, Auth::new, request_items.query(), request_items.headers()
ResolveItems ==
    /\ pc = "items"
    /\ auth' = Auth_new(opt.auth)
    /\ headers' = headers_of(opt.request_items).map
    /\ headers_to_unset' = headers_of(opt.request_items).unset
    /\ Advance("items")
    /\ UNCHANGED <<opt, stdin, stdout_tty, body, request, print, response, consumers>>

\* let body = match (request_items.body(..).await?, body_from_stdin(..)) {..}
\* `readable`: the attachment files can be read. The tuple is evaluated left to
\* right: stdin is read only when the items' side returned Ok.
ResolveBody ==
    /\ pc = "body"
    /\ \E readable \in BOOLEAN :
        LET fromItems == items_body(opt.request_items, opt.form, opt.multipart, readable)
            fromStdin == body_from_stdin(opt.ignore_stdin, stdin)
            r == resolve_body(fromItems, fromStdin)
        IN  IF fromItems.err = "none" /\ fromStdin = Panic
                THEN body' = body /\ Abort("body", "IoError")
            ELSE IF r.err # "none"
                THEN body' = body /\ Abort("body", r.err)
            ELSE body' = r.body /\ Advance("body")
    /\ UNCHANGED <<opt, stdin, stdout_tty, auth, headers, headers_to_unset, request,
                   print, response, consumers>>

\* let request = { .. request_builder.query(&query).headers(headers).build()?; .. }
BuildRequest ==
    /\ pc = "build"
    /\ \/ /\ request' = [built |-> TRUE,
                         headers |-> build_headers(Host, body, auth, headers, headers_to_unset),
                         body |-> body]
          /\ Advance("build")
       \/ /\ request' = request
          /\ Abort("build", "TransportError")
    /\ UNCHANGED <<opt, stdin, stdout_tty, auth, headers, headers_to_unset, body,
                   print, response, consumers>>

\* let print = opt.print.unwrap_or(..)
ResolvePrint ==
    /\ pc = "policy"
    /\ print' = print_policy(opt.print, opt.verbose, stdout_tty)
    /\ pc' = after_stage("policy")
    /\ UNCHANGED <<opt, stdin, stdout_tty, auth, headers, headers_to_unset, body,
                   request, response, consumers, result, log>>

\* if print.request_headers { printer.print_request_headers(&request) }
PrintRequestHeaders ==
    /\ pc = "request_headers"
    /\ pc' = after_stage("request_headers")
    /\ log' = IF print.request_headers THEN Append(log, Ran("request_headers")) ELSE log
    /\ UNCHANGED <<opt, stdin, stdout_tty, auth, headers, headers_to_unset, body,
                   request, print, response, consumers, result>>

\* if print.request_body { printer.print_request_body(&request) }
PrintRequestBody ==
    /\ pc = "request_body"
    /\ pc' = after_stage("request_body")
    /\ log' = IF print.request_body THEN Append(log, Ran("request_body")) ELSE log
    /\ UNCHANGED <<opt, stdin, stdout_tty, auth, headers, headers_to_unset, body,
                   request, print, response, consumers, result>>

\* if !opt.offline { let response = client.execute(request).await?; .. }
Send ==
    /\ pc = "send"
    /\ IF sends(opt.offline)
        THEN \/ response' = "open" /\ Advance("send")
             \/ response' = response /\ Abort("send", "TransportError")
        ELSE /\ pc' = "finish"
             /\ UNCHANGED <<response, log, result>>
    /\ UNCHANGED <<opt, stdin, stdout_tty, auth, headers, headers_to_unset, body,
                   request, print, consumers>>

\* if print.response_headers { printer.print_response_headers(&response) }
PrintResponseHeaders ==
    /\ pc = "response_headers"
    /\ pc' = after_stage("response_headers")
    /\ log' = IF print.response_headers THEN Append(log, Ran("response_headers")) ELSE log
    /\ UNCHANGED <<opt, stdin, stdout_tty, auth, headers, headers_to_unset, body,
                   request, print, response, consumers, result>>

\* if opt.download { download_file(response).await }
\* else if print.response_body { printer.print_response_body(response).await }
\* `response` is moved into the callee, which reads it to the end or drops it
\* when it fails part-way; with neither branch it is dropped at the end of the block.
ConsumeResponse ==
    /\ pc = "response_body"
    /\ LET taken == response_consumers(opt.download, print.response_body)
       IN  /\ consumers' = consumers \cup taken
           /\ IF taken = {}
                THEN /\ response' = "dropped"
                     /\ pc' = after_stage("response_body")
                     /\ UNCHANGED <<log, result>>
                ELSE LET stage == IF "download" \in taken THEN "download" ELSE "response_body"
                     IN  \/ response' = "drained" /\ Advance("response_body")
                               /\ stage = "response_body"
                         \/ response' = "drained" /\ stage = "download"
                               /\ pc' = after_stage("response_body")
                               /\ log' = Append(log, Ran("download"))
                               /\ result' = result
                         \/ response' = "dropped" /\ Abort(stage, "IoError")
    /\ UNCHANGED <<opt, stdin, stdout_tty, auth, headers, headers_to_unset, body,
                   request, print>>

\* Ok(())
Finish ==
    /\ pc = "finish"
    /\ pc' = "exit"
    /\ result' = "Ok"
    /\ UNCHANGED <<opt, stdin, stdout_tty, auth, headers, headers_to_unset, body,
                   request, print, response, consumers, log>>

Next ==
    \/ ParseArgs
    \/ ResolveUrl
    \/ ResolveItems
    \/ ResolveBody
    \/ BuildRequest
    \/ ResolvePrint
    \/ PrintRequestHeaders
    \/ PrintRequestBody
    \/ Send
    \/ PrintResponseHeaders
    \/ ConsumeResponse
    \/ Finish

Spec == Init /\ [][Next]_vars

\* Request assembly alone: every item kind, up to the built request.
NextAssemble ==
    \/ ParseArgsOffline
    \/ ResolveUrl
    \/ ResolveItems
    \/ ResolveBody
    \/ BuildRequest

SpecAssemble == Init /\ [][NextAssemble]_vars

(***************************************************************************)
(* Properties.                                                             *)
(***************************************************************************)

Parsed == opt # NoOpt

\* Stage st ran to completion / was attempted.
Did(st) == \E i \in 1..Len(log) : log[i] = Ran(st)
Tried(st) == \E i \in 1..Len(log) : log[i].stage = st

RenderStages == {"request_headers", "request_body", "response_headers", "response_body"}
ResponseStages == {"response_headers", "response_body", "download"}
AssemblyStages == {"args", "url", "items", "body", "build"}

\* C1 (as stated): whenever body-contributing items exist and a piped stdin is
\* supplied to body resolution (not switched off by --ignore-stdin), body
\* resolution ends with the conflict error, whatever the items, the
\* form/multipart flags and the piped data are.
C1_PipedStdinWithItemsConflicts ==
    (/\ Parsed
     /\ BodyItems(opt.request_items) # <<>>
     /\ ~stdin.tty /\ ~opt.ignore_stdin
     /\ Tried("body"))
        => result = "ConflictError"

\* C2: the print policy is the explicit override when given; else all four
\* when verbose; else response headers and body on a terminal; else the
\* response body alone.
C2_PrintPolicyPrecedence ==
    print # NoPrint =>
        /\ opt.print # NoPrint => print = opt.print
        /\ (opt.print = NoPrint /\ opt.verbose) =>
                print = Print_new(TRUE, TRUE, TRUE, TRUE)
        /\ (opt.print = NoPrint /\ ~opt.verbose /\ stdout_tty) =>
                print = Print_new(FALSE, FALSE, TRUE, TRUE)
        /\ (opt.print = NoPrint /\ ~opt.verbose /\ ~stdout_tty) =>
                print = Print_new(FALSE, FALSE, FALSE, TRUE)

C2_Witness ==
    /\ print = Print_new(FALSE, FALSE, FALSE, TRUE)
    /\ opt.print = NoPrint /\ ~opt.verbose /\ ~stdout_tty

\* C3 (as stated): with no user Accept header and no unset of it, the built
\* request's Accept is exactly `application/json, */*` for a Json or Raw body
\* and exactly `*/*` otherwise.
C3_AcceptInferred ==
    (request.built /\ headers["accept"] = <<>> /\ "accept" \notin headers_to_unset) =>
        request.headers["accept"] =
            IF body.variant \in {"Json", "Raw"} THEN << "application/json, */*" >>
            ELSE << "*/*" >>

\* C4: no header named in the headers-to-remove set is present in a built
\* request, whether it came from the defaults, the body, the auth or the user.
C4_UnsetHeadersAbsent ==
    request.built => \A n \in headers_to_unset : request.headers[n] = <<>>

C4_Witness ==
    /\ request.built
    /\ headers_to_unset = {"host", "authorization"}
    /\ headers["host"] = <<>>
    /\ auth # NoAuth
    /\ request.headers["host"] = <<>>

C6_SendOnceFailFast ==
    /\ Cardinality({ i \in 1..Len(log) : log[i].stage = "send" }) <= 1
    /\ \A i \in 1..Len(log) :
            log[i].stage = "send" =>
                /\ \A st \in AssemblyStages : \E j \in 1..(i - 1) : log[j] = Ran(st)
                /\ request.built
                /\ ~(BodyItems(opt.request_items) # <<>> /\ ~stdin.tty /\ ~opt.ignore_stdin)
    /\ \A i \in 1..Len(log) : ~log[i].ok => i = Len(log)
    /\ (\E i \in 1..Len(log) : ~log[i].ok) <=> result \notin {"running", "Ok"}
    /\ result # "running" => pc = "exit"

C6_Witness == pc = "exit" /\ Did("send") /\ result = "Ok"

\* C7 (as stated): after a successful body resolution the body is None exactly
\* when there are no body-contributing items and stdin is a terminal.
C7_BodyNoneIffNoItemsAndTerminal ==
    Did("body") =>
        (body = NoBody <=> (BodyItems(opt.request_items) = <<>> /\ stdin.tty))

\* C7 (amended): after a successful body resolution the body is None exactly
\* when there are no body-contributing items and stdin is not read, i.e. it is
\* a terminal or --ignore-stdin is set.
C7_BodyNoneIffNoItemsAndNoStdinRead ==
    Did("body") =>
        (body = NoBody <=>
            (BodyItems(opt.request_items) = <<>> /\ (stdin.tty \/ opt.ignore_stdin)))

C7_Witness ==
    /\ Did("body")
    /\ body = NoBody
    /\ ~stdin.tty
    /\ opt.ignore_stdin
    /\ opt.request_items # <<>>

\* C8: the response body stream has at most one consumer, is never displayed
\* when --download is set, and at exit is drained, dropped or never received.
C8_ResponseStreamDiscipline ==
    /\ Cardinality(consumers) <= 1
    /\ (Parsed /\ opt.download) => ("display" \notin consumers /\ ~Tried("response_body"))
    /\ Tried("response_body") => ~Tried("download")
    /\ response = "drained" => consumers # {}
    /\ pc = "exit" => response \in {"none", "drained", "dropped"}

C8_Witness ==
    /\ pc = "exit"
    /\ result = "Ok"
    /\ opt.download
    /\ print.response_body
    /\ consumers = {"download"}
    /\ response = "drained"

\* C9: with --offline nothing is sent and no response is rendered or
\* downloaded; once the request is built its parts are rendered as the print
\* policy says and the invocation ends with Ok.
C9_OfflineBuildsNeverSends ==
    (Parsed /\ opt.offline) =>
        /\ \A i \in 1..Len(log) : log[i].stage \notin ({"send"} \cup ResponseStages)
        /\ response = "none" /\ consumers = {}
        /\ (pc = "finish" \/ result = "Ok") =>
                /\ request.built
                /\ Did("request_headers") <=> print.request_headers
                /\ Did("request_body") <=> print.request_body
        /\ (pc = "exit" /\ request.built) => result = "Ok"

C9_Witness ==
    /\ Parsed /\ opt.offline
    /\ result = "Ok"
    /\ Did("request_headers")
    /\ ~Did("request_body")

\* C10 (as stated): every rendering step happens after the transport send.
C10_RenderingAfterSend ==
    \A i \in 1..Len(log) :
        log[i].stage \in RenderStages => \E j \in 1..(i - 1) : log[j] = Ran("send")

Rank(st) ==
    CASE st = "args" -> 1
      [] st = "url" -> 2
      [] st = "items" -> 3
      [] st = "body" -> 4
      [] st = "build" -> 5
      [] st = "request_headers" -> 6
      [] st = "request_body" -> 7
      [] st = "send" -> 8
      [] st = "response_headers" -> 9
      [] st = "response_body" -> 10
      [] st = "download" -> 10

\* C10 (amended): the stages occur in the order parse, resolve, assemble,
\* request rendering, send, response rendering; every response rendering step
\* follows a successful send; nothing is rendered when an assembly stage fails.
C10_PipelineOrder ==
    /\ \A i, j \in 1..Len(log) : i < j => Rank(log[i].stage) < Rank(log[j].stage)
    /\ \A i \in 1..Len(log) :
            log[i].stage \in ResponseStages => \E j \in 1..(i - 1) : log[j] = Ran("send")
    /\ \A i \in 1..Len(log) :
            log[i].stage \in {"request_headers", "request_body", "send"} =>
                \A st \in AssemblyStages : \E j \in 1..(i - 1) : log[j] = Ran(st)
    /\ (\E i \in 1..Len(log) : log[i].stage \in AssemblyStages /\ ~log[i].ok) =>
            \A i \in 1..Len(log) : log[i].stage \notin RenderStages

C10_Witness ==
    /\ pc = "exit"
    /\ result = "Ok"
    /\ Did("request_headers") /\ Did("request_body")
    /\ Did("send")
    /\ Did("response_headers") /\ Did("response_body")

====
